---------------------------- MODULE Spec2Model ----------------------------
(***************************************************************************)
(* Model of src/js/main.js: the client-side rendering layer of the blog.   *)
(* One page view is one behaviour: DOMContentLoaded starts the loader, the *)
(* fetches settle one await at a time, the continuation renders the page,  *)
(* and then the browser delivers clicks, hover events and timer ticks.     *)
(*                                                                         *)
(* DOM nodes are records; the innerHTML of a container is a sequence of    *)
(* nodes.  A post is a record with its slug (a number), category, date,    *)
(* optional image and optional content.                                    *)
(***************************************************************************)
EXTENDS Integers, Sequences, FiniteSets

(***************************************************************************)
(* Bounds of the model.                                                    *)
(***************************************************************************)
MaxPosts == 80        \* largest dataset served to the index page
MaxPagePosts == 5     \* largest dataset served to a single-post page
MaxParas == 4         \* most paragraphs of a post
MaxItems == 1         \* most ingredients / steps of a post
MaxTimerId == 2       \* interval handles the browser hands out: 1..MaxTimerId
MaxRot == 1           \* outcomes of the random shuffle that are enumerated
MaxArg == 7           \* goToSlide arguments enumerated: -MaxArg..MaxArg

(***************************************************************************)
(* Program constants.                                                      *)
(***************************************************************************)
postsPerPage == 8
featuredMax == 5
relatedMax == 3
recentMax == 5
midAdIndex == 2

Categories == <<"Recipes", "Tips", "News">>
NoTimer == 0          \* carouselInterval undefined / null
NoSlug == 0           \* no slug query parameter, no post

VARIABLES
    \* ---- the environment of the page view (inputs, never written) ----
    page,            \* "index" (postsGrid present) or "post" (postContent present)
    dataset,         \* description of the posts the server holds
    slugParam,       \* the slug query parameter, NoSlug when absent
    hasPostBody,     \* a pre-rendered .post-body element is in the page
    preloadedPost,   \* window.preloadedPost: a post slug of the site, or NoSlug
    \* ---- the loader ----
    pc,              \* where the async load chain is suspended
    indexStatus,     \* how fetch(indexPath) settled
    indexJson,       \* how response.json() of the index settled
    fullStatus,      \* how fetch(dataPath) settled
    fullJson,        \* how response.json() of the full dataset settled
    indexFetches,    \* requests issued for the index resource
    fullFetches,     \* requests issued for the full dataset
    posts,           \* what the loader returned to its caller: "none" yet, the
                     \* postsData array itself, or a new empty array
    \* ---- program state ----
    postsData, currentPost, currentPage,
    currentSlide, carouselInterval, carouselPosts,
    \* ---- browser state ----
    timers,          \* live interval timers
    listening,       \* carousel click / hover listeners are attached
    lastCall,        \* arguments of the latest direct goToSlide call, <<>> before
    \* ---- DOM ----
    grid, pagination, heroCarousel, carouselDots,
    categoryList, recentPosts, postContent,
    relatedShown, relatedGrid, metaSlug

envVars == <<page, dataset, slugParam, hasPostBody, preloadedPost>>
loadVars == <<pc, indexStatus, indexJson, fullStatus, fullJson,
              indexFetches, fullFetches, posts>>
carouselVars == <<currentSlide, carouselInterval, carouselPosts, timers,
                  listening, lastCall, heroCarousel, carouselDots>>
gridVars == <<currentPage, grid, pagination>>
sidebarVars == <<categoryList, recentPosts>>
postVars == <<currentPost, postContent, relatedShown, relatedGrid, metaSlug>>
vars == <<envVars, loadVars, postsData, carouselVars, gridVars, sidebarVars,
          postVars>>

(***************************************************************************)
(* Small helpers on sequences.                                             *)
(***************************************************************************)
Min(a, b) == IF a < b THEN a ELSE b
Max(a, b) == IF a > b THEN a ELSE b

\* Array.prototype.slice(start, end) on a 0-based array held as a sequence
Slice(s, start, end) ==
    LET n == Len(s)
        from == IF start < 0 THEN Max(n + start, 0) ELSE Min(start, n)
        to == IF end < 0 THEN Max(n + end, 0) ELSE Min(end, n)
    IN  IF to <= from THEN <<>> ELSE SubSeq(s, from + 1, to)

\* Math.ceil(a / b) for a >= 0, b > 0
CeilDiv(a, b) == (a + b - 1) \div b


(***************************************************************************)
(* Post records and the datasets the server can hold.                      *)
(***************************************************************************)
\* content with np paragraphs, ni ingredients, ns steps; a text is a number
Content(np, ni, ns) ==
    [paragraphs |-> [k \in 1..np |-> k],
     ingredients |-> [k \in 1..ni |-> 100 + k],
     steps |-> [k \in 1..ns |-> 200 + k]]

DateOf(i) == (i * 7) % 5
HasImage(i) == i % 2 = 1

\* an abbreviated record, as the lightweight index holds it: no content field
MkAbbreviated(i, cat) ==
    [slug |-> i, category |-> cat, date |-> DateOf(i), image |-> HasImage(i)]

MkPost(i, cat, content) ==
    [slug |-> i, category |-> cat, date |-> DateOf(i), image |-> HasImage(i),
     content |-> content]

\* the category of post i of the dataset: cats, repeated
CategoryOf(i) == dataset.cats[((i - 1) % Len(dataset.cats)) + 1]

\* the posts the server holds, from the description of the dataset: n posts
\* with the categories cats and one content shape; with bare, the record of
\* the first post has no content field
Site ==
    [i \in 1..dataset.n |->
        IF dataset.bare /\ i = 1
        THEN MkAbbreviated(i, CategoryOf(i))
        ELSE MkPost(i, CategoryOf(i),
                    Content(dataset.np, dataset.ni, dataset.ns))]

Abbreviated(ps) ==
    [i \in 1..Len(ps) |-> MkAbbreviated(ps[i].slug, ps[i].category)]

\* the categories of a dataset when they are not enumerated
Rotating(m) == [i \in 1..m |-> Categories[i]]

Dataset(n, cats, np, ni, ns, bare) ==
    [n |-> n, cats |-> cats, np |-> np, ni |-> ni, ns |-> ns, bare |-> bare]

DataPath == IF page = "post" THEN "../data/posts.json" ELSE "data/posts.json"

\* error.message of what loadPostsData catches
ErrorMessage(failure) ==
    CASE failure = "throw" -> "Failed to fetch"
      [] failure = "notok" -> "HTTP error! status: 404"
      [] failure = "parsefail" -> "Unexpected token in JSON"

(***************************************************************************)
(* DOM nodes.                                                              *)
(***************************************************************************)
\* what the static template put in a container the script has not written
Initial == <<[tag |-> "static"]>>

CreatePostCard(post) ==
    [tag |-> "card", slug |-> post.slug, category |-> post.category,
     image |-> post.image]

RenderPostsGridNodes(ps) == [i \in 1..Len(ps) |-> CreatePostCard(ps[i])]

LoadErrorNode(message, path) ==
    [tag |-> "loaderror", message |-> message, path |-> path]

ShowErrorNode(message) == [tag |-> "error", message |-> message, path |-> ""]

EmptyStateNode == [tag |-> "empty", slug |-> NoSlug, active |-> FALSE]

(***************************************************************************)
(* Grid and pagination.                                                    *)
(***************************************************************************)
\* the page taken as 0-based
PagedPostsZeroBased(pd, p) ==
    LET startIndex == p * postsPerPage
        endIndex == startIndex + postsPerPage
    IN  Slice(pd, startIndex, endIndex)

PagedPosts(pd, p) ==
    LET startIndex == (p - 1) * postsPerPage
        endIndex == startIndex + postsPerPage
    IN  Slice(pd, startIndex, endIndex)

PrevButton(p) == [tag |-> "prev", page |-> p, active |-> FALSE]
NextButton(p) == [tag |-> "next", page |-> p, active |-> FALSE]
NumButton(p, cp) == [tag |-> "num", page |-> p, active |-> (p = cp)]
PageDots == [tag |-> "dots", page |-> 0, active |-> FALSE]

\* a wider window: pages within 2 of the current one get a button
PageItemWide(i, totalPages, cp) ==
    IF i = 1 \/ i = totalPages \/ (i >= cp - 2 /\ i <= cp + 2)
    THEN <<NumButton(i, cp)>>
    ELSE IF i = cp - 3 \/ i = cp + 3 THEN <<PageDots>> ELSE <<>>

\* the button of the last page forgotten
PageItemNoLast(i, totalPages, cp) ==
    IF i = 1 \/ (i >= cp - 1 /\ i <= cp + 1)
    THEN <<NumButton(i, cp)>>
    ELSE IF i = cp - 2 \/ i = cp + 2 THEN <<PageDots>> ELSE <<>>

\* one iteration of the page-number loop
PageItem(i, totalPages, cp) ==
    IF i = 1 \/ i = totalPages \/ (i >= cp - 1 /\ i <= cp + 1)
    THEN <<NumButton(i, cp)>>
    ELSE IF i = cp - 2 \/ i = cp + 2 THEN <<PageDots>> ELSE <<>>

RECURSIVE PageLoop(_, _, _)
PageLoop(i, totalPages, cp) ==
    IF i > totalPages THEN <<>>
    ELSE PageItem(i, totalPages, cp) \o PageLoop(i + 1, totalPages, cp)

TotalPages(pd) == CeilDiv(Len(pd), postsPerPage)

\* the Next button rendered on the last page too
RenderPaginationControlsNextOnLast(pd, cp) ==
    LET totalPages == TotalPages(pd)
    IN  IF totalPages <= 1 THEN <<>>
        ELSE (IF cp > 1 THEN <<PrevButton(cp - 1)>> ELSE <<>>)
             \o PageLoop(1, totalPages, cp)
             \o (IF cp <= totalPages THEN <<NextButton(cp + 1)>> ELSE <<>>)

RenderPaginationControls(pd, cp) ==
    LET totalPages == TotalPages(pd)
    IN  IF totalPages <= 1 THEN <<>>
        ELSE (IF cp > 1 THEN <<PrevButton(cp - 1)>> ELSE <<>>)
             \o PageLoop(1, totalPages, cp)
             \o (IF cp < totalPages THEN <<NextButton(cp + 1)>> ELSE <<>>)

(***************************************************************************)
(* Sidebar.                                                                *)
(***************************************************************************)
\* [...new Set(posts.map(p => p.category))]: the positions where a category
\* occurs first, in ascending order
FirstOccurrences(ps) ==
    {i \in 1..Len(ps) : \A j \in 1..(i - 1) : ps[j].category # ps[i].category}

Ascending(S) ==
    [k \in 1..Cardinality(S) |->
        CHOOSE i \in S : Cardinality({j \in S : j < i}) = k - 1]

UniqueCategories(ps) ==
    LET firsts == Ascending(FirstOccurrences(ps))
    IN  [k \in 1..Len(firsts) |-> ps[firsts[k]].category]

CountIn(ps, cat) == Cardinality({i \in 1..Len(ps) : ps[i].category = cat})

RenderCategoriesNodes(ps) ==
    LET cats == UniqueCategories(ps)
    IN  [k \in 1..Len(cats) |->
            [tag |-> "category", category |-> cats[k],
             count |-> CountIn(ps, cats[k])]]

\* the position that a stable sort, newest first, puts next after the
\* positions in taken: the earliest of the newest posts left
NextNewest(ps, taken) ==
    LET left == (1..Len(ps)) \ taken
        dates == {ps[i].date : i \in left}
        newest == CHOOSE d \in dates : \A e \in dates : e <= d
    IN  CHOOSE i \in left :
            /\ ps[i].date = newest
            /\ \A j \in left : j < i => ps[j].date # newest

\* [...posts].sort((a, b) => new Date(b.date) - new Date(a.date))
\*     .slice(0, count): the first count posts of the stable sort
RECURSIVE NewestFirst(_, _, _)
NewestFirst(ps, taken, count) ==
    IF count = 0 \/ Cardinality(taken) = Len(ps) THEN <<>>
    ELSE LET at == NextNewest(ps, taken)
         IN  <<ps[at]>> \o NewestFirst(ps, taken \cup {at}, count - 1)

RenderRecentPostsNodes(ps) ==
    LET recent == NewestFirst(ps, {}, recentMax)
    IN  [k \in 1..Len(recent) |-> [tag |-> "recent", slug |-> recent[k].slug]]

(***************************************************************************)
(* Carousel.                                                               *)
(***************************************************************************)
\* one outcome of [...posts].sort(() => 0.5 - Math.random()): a rotation
Shuffled(ps, r) ==
    LET n == Len(ps) IN [i \in 1..n |-> ps[((i - 1 + r) % n) + 1]]

FeaturedPosts(ps, r) == Slice(Shuffled(ps, r), 0, Min(featuredMax, Len(ps)))

SlideNodes(cps) ==
    [i \in 1..Len(cps) |->
        [tag |-> "slide", slug |-> cps[i].slug, active |-> (i - 1 = 0)]]

DotNodes(cps) == [i \in 1..Len(cps) |-> [tag |-> "dot", active |-> (i - 1 = 0)]]

\* document.querySelectorAll('.carousel-slide')
Slides(hc) == SelectSeq(hc, LAMBDA node : node.tag = "slide")

\* the overflow test off by one: index > slides.length
WrapIndexOffByOne(index, n) ==
    LET wrappedLow == IF index < 0 THEN n - 1 ELSE index
    IN  IF wrappedLow > n THEN 0 ELSE wrappedLow

\* the two wrap-around tests of goToSlide, in order
WrapIndex(index, n) ==
    LET wrappedLow == IF index < 0 THEN n - 1 ELSE index
    IN  IF wrappedLow >= n THEN 0 ELSE wrappedLow

\* classList.add('active') on the element at, the others left as they are
ActivateWithoutClearing(nodes, at) ==
    [j \in 1..Len(nodes) |->
        [nodes[j] EXCEPT !.active = nodes[j].active \/ (j - 1 = at)]]

\* classList.remove('active') on all, classList.add('active') on element at
Activate(nodes, at) ==
    [j \in 1..Len(nodes) |-> [nodes[j] EXCEPT !.active = (j - 1 = at)]]

Deactivate(nodes) == [j \in 1..Len(nodes) |-> [nodes[j] EXCEPT !.active = FALSE]]

GoToSlide(index) ==
    /\ IF Len(Slides(heroCarousel)) = 0
       THEN UNCHANGED <<currentSlide, heroCarousel, carouselDots>>
       ELSE LET at == WrapIndex(index, Len(Slides(heroCarousel)))
            IN  /\ heroCarousel' = Activate(heroCarousel, at)
                /\ carouselDots' = IF at < Len(carouselDots)
                                   THEN Activate(carouselDots, at)
                                   ELSE Deactivate(carouselDots)
                /\ currentSlide' = at

StopAutoSlide(ts, handle) ==
    IF handle # NoTimer
    THEN [timers |-> ts \ {handle}, handle |-> NoTimer]
    ELSE [timers |-> ts, handle |-> handle]

\* setInterval without clearing the interval that is already running
StartAutoSlideStacking(ts, handle, id) ==
    [timers |-> ts \cup {id}, handle |-> id, fresh |-> id \notin ts]

\* stopAutoSlide(), then setInterval returns id; fresh: the browser may
\* hand out id, it names no live timer
StartAutoSlide(ts, handle, id) ==
    LET stopped == StopAutoSlide(ts, handle)
    IN  [timers |-> stopped.timers \cup {id}, handle |-> id,
         fresh |-> id \notin stopped.timers]

(***************************************************************************)
(* Single post and related posts.                                          *)
(***************************************************************************)
MidAd == [tag |-> "ad", place |-> "mid"]
EndAd == [tag |-> "ad", place |-> "end"]

\* the mid-content ad one paragraph late
MidAdAfterLate(index) == IF index = midAdIndex + 1 THEN <<MidAd>> ELSE <<>>

\* what follows the paragraph at index (0-based) in the loop
MidAdAfter(index) == IF index = midAdIndex THEN <<MidAd>> ELSE <<>>

RECURSIVE ParagraphNodes(_, _)
ParagraphNodes(paras, k) ==
    IF k > Len(paras) THEN <<>>
    ELSE <<[tag |-> "p", text |-> paras[k]]>>
         \o MidAdAfter(k - 1)
         \o ParagraphNodes(paras, k + 1)

ListNodes(heading, listTag, items) ==
    IF Len(items) > 0
    THEN <<[tag |-> "h2", text |-> heading], [tag |-> listTag, items |-> items]>>
    ELSE <<>>

BodyNodes(content) ==
    ParagraphNodes(content.paragraphs, 1)
    \o ListNodes("Ingredients", "ul", content.ingredients)
    \o ListNodes("Instructions", "ol", content.steps)
    \o <<EndAd>>

\* reading post.content.paragraphs of a record without content throws
RenderThrows(post) == "content" \notin DOMAIN post

ArticleNode(post) ==
    [tag |-> "article", slug |-> post.slug, header |-> <<"title", "meta">>,
     image |-> post.image, body |-> BodyNodes(post.content)]

RelatedPosts(cur, all) ==
    LET related == SelectSeq(all, LAMBDA p :
                        p.category = cur.category /\ p.slug # cur.slug)
        others == SelectSeq(all, LAMBDA p : p.slug # cur.slug)
    IN  IF Len(related) < relatedMax
        THEN Slice(related \o others, 0, relatedMax)
        ELSE Slice(related, 0, relatedMax)

RelatedNodes(ps) == [k \in 1..Len(ps) |-> [tag |-> "related", slug |-> ps[k].slug]]

\* posts.find(p => p.slug === slug): position of the first match, 0 if none
RECURSIVE FindSlug(_, _, _)
FindSlug(ps, slug, k) ==
    IF k > Len(ps) THEN 0
    ELSE IF ps[k].slug = slug THEN k ELSE FindSlug(ps, slug, k + 1)

(***************************************************************************)
(* Initial states: one page view, before DOMContentLoaded.                 *)
(***************************************************************************)
InitProgram ==
    /\ pc = "start"
    /\ indexStatus = "none" /\ indexJson = "none"
    /\ fullStatus = "none" /\ fullJson = "none"
    /\ indexFetches = 0 /\ fullFetches = 0
    /\ posts = "none"
    /\ postsData = <<>> /\ currentPost = NoSlug /\ currentPage = 1
    /\ currentSlide = 0 /\ carouselInterval = NoTimer /\ carouselPosts = <<>>
    /\ timers = {} /\ listening = FALSE /\ lastCall = <<>>
    /\ grid = Initial /\ pagination = Initial
    /\ heroCarousel = Initial /\ carouselDots = Initial
    /\ categoryList = Initial /\ recentPosts = Initial
    /\ postContent = Initial
    /\ relatedShown = FALSE /\ relatedGrid = Initial /\ metaSlug = NoSlug

\* the homepage: postsGrid, heroCarousel, pagination and the sidebar exist
InitIndex ==
    /\ page = "index"
    /\ dataset \in {Dataset(n, Rotating(3), 1, 1, 1, FALSE) : n \in 0..MaxPosts}
    /\ slugParam = NoSlug /\ hasPostBody = FALSE /\ preloadedPost = NoSlug
    /\ InitProgram

\* a statically generated post page: postContent, the sidebar and the
\* related-posts section exist; the datasets differ in their categories
InitStaticPost ==
    /\ page = "post"
    /\ \E n \in 0..MaxPagePosts :
        /\ \E cats \in [1..n -> {Categories[1], Categories[2]}] :
              dataset = Dataset(n, cats, 1, 1, 1, FALSE)
        /\ hasPostBody \in BOOLEAN
        /\ preloadedPost \in 0..n
        /\ hasPostBody \/ preloadedPost # NoSlug
    /\ slugParam = NoSlug
    /\ InitProgram

\* a dynamically rendered post page; the datasets differ in their content
InitDynamicPost ==
    /\ page = "post"
    /\ hasPostBody = FALSE /\ preloadedPost = NoSlug
    /\ \E n \in 0..MaxPagePosts :
        /\ \E np \in 0..MaxParas, ni \in 0..MaxItems, ns \in 0..MaxItems,
              bare \in BOOLEAN :
                /\ bare => n >= 1
                /\ dataset = Dataset(n, Rotating(2), np, ni, ns, bare)
        /\ slugParam \in 0..(n + 1)
    /\ InitProgram

InitPost == InitStaticPost \/ InitDynamicPost

Init == InitIndex \/ InitPost

(***************************************************************************)
(* Rendering steps, as the parts of the handlers that use them.            *)
(***************************************************************************)
HasPostsGrid == page = "index"

RenderSidebar(ps) ==
    /\ categoryList' = RenderCategoriesNodes(ps)
    /\ recentPosts' = RenderRecentPostsNodes(ps)

\* renderPagedPosts(p) with postsData = pd; g is the grid content so far
RenderPagedPosts(pd, p, g) ==
    IF Len(pd) = 0
    THEN grid' = g /\ UNCHANGED <<currentPage, pagination, sidebarVars>>
    ELSE /\ currentPage' = p
         /\ grid' = RenderPostsGridNodes(PagedPosts(pd, p))
         /\ pagination' = RenderPaginationControls(pd, p)
         /\ IF p = 1 THEN RenderSidebar(pd) ELSE UNCHANGED sidebarVars

\* renderHeroCarousel(ps): slides, dots, listeners, auto-slide
RenderHeroCarousel(ps) ==
    \E r \in 0..MaxRot, id \in 1..MaxTimerId :
        LET started == StartAutoSlide(timers, carouselInterval, id)
        IN  /\ started.fresh
            /\ carouselPosts' = FeaturedPosts(ps, r)
            /\ heroCarousel' = SlideNodes(carouselPosts')
            /\ carouselDots' = DotNodes(carouselPosts')
            /\ listening' = TRUE
            /\ timers' = started.timers
            /\ carouselInterval' = started.handle
            /\ UNCHANGED <<currentSlide, lastCall>>

\* loadAllPosts after its await
LoadAllPostsRest(ps, pd, g) ==
    /\ IF Len(ps) = 0
       THEN /\ heroCarousel' = <<EmptyStateNode>>
            /\ grid' = g
            /\ UNCHANGED <<currentSlide, carouselInterval, carouselPosts,
                           timers, listening, lastCall, carouselDots,
                           currentPage, pagination, sidebarVars>>
       ELSE /\ RenderHeroCarousel(ps)
            /\ RenderPagedPosts(pd, 1, g)
    /\ UNCHANGED postVars

\* renderRelatedPosts(cur, ps)
RenderRelatedPosts(cur, ps) ==
    LET related == RelatedPosts(cur, ps)
    IN  IF Len(related) = 0
        THEN UNCHANGED <<relatedShown, relatedGrid>>
        ELSE relatedShown' = TRUE /\ relatedGrid' = RelatedNodes(related)

\* loadSinglePost after its await, static-generation branch
StaticPostRest(ps, g) ==
    /\ RenderSidebar(ps)
    /\ IF preloadedPost # NoSlug
       THEN RenderRelatedPosts(Site[preloadedPost], ps)
       ELSE UNCHANGED <<relatedShown, relatedGrid>>
    /\ grid' = g
    /\ UNCHANGED <<carouselVars, currentPage, pagination, currentPost,
                   postContent, metaSlug>>

\* loadSinglePost after its await, dynamic branch
DynamicPostRest(ps, g) ==
    LET at == FindSlug(ps, slugParam, 1)
    IN  /\ IF at = 0
           THEN /\ postContent' = <<ShowErrorNode("Post not found (Slug mismatch)")>>
                /\ UNCHANGED <<currentPost, metaSlug, sidebarVars>>
           ELSE /\ currentPost' = ps[at].slug
                /\ postContent' =
                      IF RenderThrows(ps[at])
                      THEN <<ShowErrorNode("Error rendering post: Cannot read properties of undefined")>>
                      ELSE <<ArticleNode(ps[at])>>
                /\ RenderSidebar(ps)
                /\ metaSlug' = ps[at].slug
        /\ grid' = g
        /\ UNCHANGED <<carouselVars, currentPage, pagination, relatedShown,
                       relatedGrid>>

StaticMode == hasPostBody \/ preloadedPost # NoSlug

\* the caller resumes with what the loader returned, the postsData array pd
\* itself or a new empty array
Resume(returned, pd, g) ==
    /\ pc' = "done"
    /\ posts' = returned
    /\ postsData' = pd
    /\ LET ps == IF returned = "postsData" THEN pd ELSE <<>>
       IN  IF page = "index" THEN LoadAllPostsRest(ps, pd, g)
           ELSE IF StaticMode THEN StaticPostRest(ps, g)
           ELSE DynamicPostRest(ps, g)

\* the sequence the loader returned
Posts == IF posts = "postsData" THEN postsData ELSE <<>>

renderVars == <<postsData, carouselVars, gridVars, sidebarVars, postVars>>

(***************************************************************************)
(* The loader.                                                             *)
(***************************************************************************)
FetchOutcomes == {"throw", "notok", "ok"}
JsonOutcomes == {"parsefail", "posts", "noposts"}

\* the index load ignores a non-success status
IndexFallsBackOnThrowOnly(stage, outcome) ==
    \/ stage = "fetch" /\ outcome = "throw"
    \/ stage = "json" /\ outcome = "parsefail"

\* loadPostsIndex hands over to loadPostsData: !response.ok, or the catch
IndexFallsBack(stage, outcome) ==
    \/ stage = "fetch" /\ outcome \in {"throw", "notok"}
    \/ stage = "json" /\ outcome = "parsefail"

FetchIndex ==
    /\ indexFetches' = indexFetches + 1
    /\ pc' = "indexFetch"
    /\ UNCHANGED <<indexStatus, indexJson, fullStatus, fullJson, fullFetches,
                   posts, renderVars>>

FetchFull ==
    /\ fullFetches' = fullFetches + 1
    /\ pc' = "fullFetch"
    /\ UNCHANGED <<fullStatus, fullJson, indexFetches, posts, renderVars>>

\* the catch block of loadPostsData, then return []
CatchFull(failure) ==
    Resume("empty", postsData,
           IF HasPostsGrid
           THEN <<LoadErrorNode(ErrorMessage(failure), DataPath)>>
           ELSE grid)

DOMContentLoaded ==
    /\ pc = "start"
    /\ IF page = "post"
       THEN IF StaticMode
            THEN FetchIndex /\ UNCHANGED <<indexStatus, indexJson>>
            ELSE IF slugParam = NoSlug
            THEN /\ postContent' = <<ShowErrorNode("Post not found (No slug provided)")>>
                 /\ pc' = "done"
                 /\ UNCHANGED <<indexStatus, indexJson, fullStatus, fullJson,
                                indexFetches, fullFetches, posts, postsData,
                                carouselVars, gridVars, sidebarVars,
                                currentPost, relatedShown, relatedGrid,
                                metaSlug>>
            ELSE FetchFull /\ UNCHANGED <<indexStatus, indexJson>>
       ELSE FetchIndex
    /\ UNCHANGED envVars

IndexFetchSettles(outcome) ==
    /\ pc = "indexFetch"
    /\ indexStatus' = outcome
    /\ IF IndexFallsBack("fetch", outcome)
       THEN FetchFull
       ELSE /\ pc' = "indexJson"
            /\ UNCHANGED <<fullStatus, fullJson, indexFetches, fullFetches,
                           posts, renderVars>>
    /\ UNCHANGED <<envVars, indexJson>>

IndexJsonSettles(outcome) ==
    /\ pc = "indexJson"
    /\ indexJson' = outcome
    /\ IF IndexFallsBack("json", outcome)
       THEN FetchFull
       ELSE /\ LET payload == IF outcome = "posts" THEN Abbreviated(Site)
                              ELSE <<>>
               IN  Resume("postsData", payload, grid)
            /\ UNCHANGED <<fullStatus, fullJson, indexFetches, fullFetches>>
    /\ UNCHANGED <<envVars, indexStatus>>

FullFetchSettles(outcome) ==
    /\ pc = "fullFetch"
    /\ fullStatus' = outcome
    /\ IF outcome = "ok"
       THEN pc' = "fullJson" /\ UNCHANGED <<posts, renderVars>>
       ELSE CatchFull(outcome)
    /\ UNCHANGED <<envVars, indexStatus, indexJson, fullJson, indexFetches,
                   fullFetches>>

FullJsonSettles(outcome) ==
    /\ pc = "fullJson"
    /\ fullJson' = outcome
    /\ IF outcome = "parsefail"
       THEN CatchFull(outcome)
       ELSE LET payload == IF outcome = "posts" THEN Site ELSE <<>>
            IN  Resume("postsData", payload, grid)
    /\ UNCHANGED <<envVars, indexStatus, indexJson, fullStatus, indexFetches,
                   fullFetches>>

(***************************************************************************)
(* Events after the page is rendered.                                      *)
(***************************************************************************)
\* window.changePage(p), from the onclick of a rendered control
ChangePage ==
    /\ pc = "done" /\ page = "index"
    /\ \E k \in DOMAIN pagination :
          /\ pagination[k].tag \in {"prev", "num", "next"}
          /\ RenderPagedPosts(postsData, pagination[k].page, grid)
    /\ UNCHANGED <<envVars, loadVars, postsData, carouselVars, postVars>>

carouselRest == <<envVars, loadVars, postsData, gridVars, sidebarVars,
                  postVars, carouselPosts, listening>>

PrevClick ==
    /\ listening
    /\ GoToSlide(currentSlide - 1)
    /\ UNCHANGED <<carouselRest, timers, carouselInterval, lastCall>>

NextClick ==
    /\ listening
    /\ GoToSlide(currentSlide + 1)
    /\ UNCHANGED <<carouselRest, timers, carouselInterval, lastCall>>

DotClick ==
    /\ listening
    /\ \E k \in DOMAIN carouselDots : GoToSlide(k - 1)
    /\ UNCHANGED <<carouselRest, timers, carouselInterval, lastCall>>

\* the interval callback of a live timer
Tick ==
    /\ timers # {}
    /\ GoToSlide(currentSlide + 1)
    /\ UNCHANGED <<carouselRest, timers, carouselInterval, lastCall>>

MouseEnter ==
    /\ listening
    /\ LET stopped == StopAutoSlide(timers, carouselInterval)
       IN  timers' = stopped.timers /\ carouselInterval' = stopped.handle
    /\ UNCHANGED <<carouselRest, currentSlide, lastCall, heroCarousel,
                   carouselDots>>

MouseLeave ==
    /\ listening
    /\ \E id \in 1..MaxTimerId :
          LET started == StartAutoSlide(timers, carouselInterval, id)
          IN  /\ started.fresh
              /\ timers' = started.timers
              /\ carouselInterval' = started.handle
    /\ UNCHANGED <<carouselRest, currentSlide, lastCall, heroCarousel,
                   carouselDots>>

\* goToSlide called with any argument
CallGoToSlide ==
    /\ pc = "done" /\ page = "index"
    /\ \E index \in (0 - MaxArg)..MaxArg :
          GoToSlide(index) /\ lastCall' = <<index>>
    /\ UNCHANGED <<carouselRest, timers, carouselInterval>>

Next ==
    \/ DOMContentLoaded
    \/ \E outcome \in FetchOutcomes : IndexFetchSettles(outcome)
    \/ \E outcome \in JsonOutcomes : IndexJsonSettles(outcome)
    \/ \E outcome \in FetchOutcomes : FullFetchSettles(outcome)
    \/ \E outcome \in JsonOutcomes : FullJsonSettles(outcome)
    \/ ChangePage
    \/ PrevClick
    \/ NextClick
    \/ DotClick
    \/ Tick
    \/ MouseEnter
    \/ MouseLeave

Spec == Init /\ [][Next]_vars

\* the homepage with goToSlide called freely
NextGoTo ==
    \/ DOMContentLoaded
    \/ \E outcome \in FetchOutcomes : IndexFetchSettles(outcome)
    \/ \E outcome \in JsonOutcomes : IndexJsonSettles(outcome)
    \/ \E outcome \in FetchOutcomes : FullFetchSettles(outcome)
    \/ \E outcome \in JsonOutcomes : FullJsonSettles(outcome)
    \/ CallGoToSlide

SpecGoTo == InitIndex /\ [][NextGoTo]_vars

(***************************************************************************)
(* Properties.                                                             *)
(***************************************************************************)
\* the homepage has rendered its grid from a non-empty dataset
GridRendered == pc = "done" /\ page = "index" /\ Len(postsData) >= 1

NumButtons == SelectSeq(pagination, LAMBDA c : c.tag = "num")

\* the page-number part of the controls: buttons and ellipses
NumbersAndDots == SelectSeq(pagination, LAMBDA c : c.tag \in {"num", "dots"})

DotsCount == Len(SelectSeq(pagination, LAMBDA c : c.tag = "dots"))

\* an ellipsis sits directly between the buttons of pages a and b
DotsBetween(a, b) ==
    \E k \in 2..(Len(NumbersAndDots) - 1) :
        /\ NumbersAndDots[k].tag = "dots"
        /\ NumbersAndDots[k - 1].tag = "num" /\ NumbersAndDots[k - 1].page = a
        /\ NumbersAndDots[k + 1].tag = "num" /\ NumbersAndDots[k + 1].page = b

\* C1: with N >= 1 posts loaded and page p in 1..ceil(N/8) rendered, the grid
\* holds exactly min(8, N - (p-1)*8) cards, the cards of posts (p-1)*8+1 ..
\* of the loaded sequence in their order; and the pages 1..ceil(N/8), one
\* after the other, are the loaded sequence: post i is card ((i-1) mod 8)+1
\* of page ((i-1) div 8)+1 and no page holds anything else.
C1_PagesPartitionPosts ==
    (GridRendered /\ currentPage \in 1..CeilDiv(Len(postsData), 8)) =>
        LET N == Len(postsData)
            p == currentPage
            pages == [q \in 1..CeilDiv(N, 8) |->
                         RenderPostsGridNodes(PagedPosts(postsData, q))]
        IN  /\ Len(grid) = Min(8, N - (p - 1) * 8)
            /\ \A j \in 1..Len(grid) :
                  grid[j] = CreatePostCard(postsData[(p - 1) * 8 + j])
            /\ grid = pages[p]
            /\ \A q \in DOMAIN pages : Len(pages[q]) = Min(8, N - (q - 1) * 8)
            /\ \A i \in 1..N :
                  pages[((i - 1) \div 8) + 1][((i - 1) % 8) + 1]
                      = CreatePostCard(postsData[i])

\* a later page that is not full is on screen
C1_Witness ==
    /\ GridRendered
    /\ currentPage >= 2
    /\ currentPage = CeilDiv(Len(postsData), 8)
    /\ Len(grid) \in 1..7

TenPagesAtPageOne == GridRendered /\ TotalPages(postsData) = 10 /\ currentPage = 1

\* C2 as stated: with 10 pages and current page 1 the controls hold the
\* buttons 1, 2, 3 and 10 and exactly one ellipsis, between 3 and 10.
C2_ButtonsOneTwoThreeTen ==
    TenPagesAtPageOne =>
        /\ [k \in 1..Len(NumButtons) |-> NumButtons[k].page] = <<1, 2, 3, 10>>
        /\ DotsCount = 1
        /\ DotsBetween(3, 10)

\* C2 amended: with 10 pages and current page 1 the controls hold the
\* buttons 1, 2 and 10 and exactly one ellipsis, between 2 and 10.
C2_ButtonsOneTwoTen ==
    TenPagesAtPageOne =>
        /\ [k \in 1..Len(NumButtons) |-> NumButtons[k].page] = <<1, 2, 10>>
        /\ DotsCount = 1
        /\ DotsBetween(2, 10)

C2_Witness == TenPagesAtPageOne /\ Len(pagination) > 1

\* C3: with T >= 2 pages and current page c, the page-number buttons are, in
\* ascending order, exactly the pages of ({1, T} \cup {c-1, c, c+1}) within
\* 1..T, only c is active, and there is one ellipsis exactly between each two
\* successive buttons that are not successive pages; with T <= 1 there are
\* no controls.
C3_PageNumbersAndEllipses ==
    GridRendered =>
        LET T == CeilDiv(Len(postsData), 8)
            c == currentPage
            nums == NumButtons
            body == NumbersAndDots
        IN  IF T <= 1 THEN pagination = <<>>
            ELSE c \in 1..T =>
                /\ {nums[k].page : k \in 1..Len(nums)}
                      = ({1, T} \cup {c - 1, c, c + 1}) \cap (1..T)
                /\ \A k \in 1..(Len(nums) - 1) : nums[k].page < nums[k + 1].page
                /\ \A k \in 1..Len(nums) : nums[k].active <=> nums[k].page = c
                /\ \A k \in 1..Len(pagination) :
                      pagination[k].tag \in {"prev", "num", "dots", "next"}
                /\ body[1].tag = "num" /\ body[Len(body)].tag = "num"
                /\ \A k \in 1..(Len(body) - 1) :
                      \/ /\ body[k].tag = "num" /\ body[k + 1].tag = "num"
                         /\ body[k + 1].page = body[k].page + 1
                      \/ /\ body[k].tag = "num" /\ body[k + 1].tag = "dots"
                         /\ body[k + 2].tag = "num"
                         /\ body[k + 2].page > body[k].page + 1
                      \/ body[k].tag = "dots" /\ body[k + 1].tag = "num"

\* both runs of pages without a button exist and each has its ellipsis
C3_Witness ==
    /\ GridRendered
    /\ TotalPages(postsData) >= 9 /\ currentPage = 5
    /\ DotsCount = 2
    /\ DotsBetween(1, 4) /\ DotsBetween(6, TotalPages(postsData))

SlideCount == Len(Slides(heroCarousel))

\* goToSlide was called directly on a rendered carousel
GoToSlideCalled == lastCall # <<>> /\ SlideCount >= 1

\* slide at (0-based) is the active slide and no other slide is
OnlyActiveSlide(at) ==
    \A j \in 1..Len(heroCarousel) : heroCarousel[j].active <=> j - 1 = at

\* C4 as stated: after goToSlide(i) on n >= 1 slides, for every integer i,
\* the active slide index is i modulo n, the remainder in 0..n-1.
C4_ActiveIndexIsModulo ==
    GoToSlideCalled =>
        /\ currentSlide = lastCall[1] % SlideCount
        /\ OnlyActiveSlide(lastCall[1] % SlideCount)

\* C4 amended: after goToSlide(i) on n >= 1 slides the active slide index is
\* i when 0 <= i < n, n-1 for every i < 0 and 0 for every i >= n; that is i
\* modulo n for -1 <= i <= n, so goToSlide(-1) activates slide n-1 and
\* goToSlide(n) slide 0.
C4_ActiveIndexWrapsToEnds ==
    GoToSlideCalled =>
        LET n == SlideCount
            i == lastCall[1]
            target == IF i < 0 THEN n - 1 ELSE IF i >= n THEN 0 ELSE i
        IN  /\ currentSlide = target
            /\ OnlyActiveSlide(target)
            /\ (i >= 0 - 1 /\ i <= n) => target = i % n
            /\ i = 0 - 1 => currentSlide = n - 1
            /\ i = n => currentSlide = 0

\* goToSlide(-2) on five slides has activated the last slide
C4_Witness ==
    /\ GoToSlideCalled
    /\ SlideCount = 5 /\ lastCall = <<0 - 2>>
    /\ currentSlide = 4 /\ heroCarousel[5].active

Idle == carouselInterval = NoTimer
AutoPlaying == carouselInterval # NoTimer

\* at most one interval timer is live: the one carouselInterval names while
\* auto-playing, none while idle
OneTimerAtMost ==
    /\ Cardinality(timers) <= 1
    /\ timers = IF Idle THEN {} ELSE {carouselInterval}

\* each conjunct is stated from its cheaper side: "A => P" as "~P => ~A"
TimerTransitions ==
    /\ (~listening /\ listening') => AutoPlaying'
    /\ AutoPlaying' => ~MouseEnter
    /\ Idle' => ~MouseLeave
    /\ (carouselInterval' # carouselInterval \/ timers' # timers) =>
          ~(PrevClick \/ NextClick \/ DotClick)
    /\ Idle => ~Tick
    /\ (Idle /\ currentSlide' # currentSlide) =>
          (PrevClick \/ NextClick \/ DotClick)

\* C5: the auto-advance timer is a two-state machine: rendering the carousel
\* and mouseleave lead to AutoPlaying, mouseenter to Idle, prev, next and dot
\* clicks leave the timer as it is; at most one interval timer is ever live,
\* and while Idle no tick moves the slide.
C5_TimerStateMachine == []OneTimerAtMost /\ [][TimerTransitions]_vars

\* the carousel was paused by mouseenter after it had advanced
C5_Witness == listening /\ Idle /\ timers = {} /\ currentSlide = 2

IndexFailed ==
    indexStatus \in {"throw", "notok"} \/ indexJson = "parsefail"
FullFailed ==
    fullStatus \in {"throw", "notok"} \/ fullJson = "parsefail"

\* the posts array of the first resource that loaded, empty when none did
FirstLoadedPosts ==
    IF indexStatus = "ok" /\ indexJson \in {"posts", "noposts"}
    THEN IF indexJson = "posts" THEN Abbreviated(Site) ELSE <<>>
    ELSE IF fullStatus = "ok" /\ fullJson \in {"posts", "noposts"}
    THEN IF fullJson = "posts" THEN Site ELSE <<>>
    ELSE <<>>

\* C6: each resource is fetched at most once per page load; once the index
\* load is attempted the full dataset is fetched if and only if the index
\* fetch threw, answered a non-success status or did not parse, and only
\* after that; loadPostsIndex returns the posts array of the first resource
\* that loaded (empty without a posts key), empty when both failed.
C6_FallbackOnceAndOnlyOnFailure ==
    /\ indexFetches <= 1 /\ fullFetches <= 1
    /\ indexFetches = 1 =>
          /\ fullFetches = 1 <=> IndexFailed
          /\ pc \in {"fullFetch", "fullJson"} => IndexFailed
          /\ pc = "done" => Posts = FirstLoadedPosts

\* the index answered a non-success status and the full dataset was used
C6_Witness ==
    /\ pc = "done"
    /\ indexFetches = 1 /\ fullFetches = 1
    /\ indexStatus = "notok" /\ fullJson = "posts"
    /\ Len(Posts) >= 1 /\ Posts = Site

\* a single-post page that renders its post from the slug in the URL
DynamicPostPage == page = "post" /\ ~StaticMode /\ slugParam # NoSlug

\* the message the failed load of the full dataset left in its error
FullErrorMessage ==
    ErrorMessage(IF fullStatus = "ok" THEN fullJson ELSE fullStatus)

\* the container shows one error node with the error text and the path
ShowsLoadError(container) ==
    /\ Len(container) = 1
    /\ container[1].tag \in {"loaderror", "error"}
    /\ container[1].message = FullErrorMessage
    /\ container[1].path = DataPath

\* C7: whenever the load of the full dataset failed, the render target of
\* the page, the posts grid of the homepage or the post container of a post
\* page opened with a slug, ends up showing an error message that holds the
\* error text and the attempted dataset path.
C7_LoadErrorShownInTarget ==
    (pc = "done" /\ FullFailed) =>
        /\ page = "index" => ShowsLoadError(grid)
        /\ DynamicPostPage => ShowsLoadError(postContent)

\* the homepage shows the load error in its grid
C7_Witness ==
    /\ pc = "done" /\ FullFailed /\ page = "index"
    /\ ShowsLoadError(grid)

SidebarPopulated ==
    /\ categoryList # Initial /\ Len(categoryList) >= 1
    /\ recentPosts # Initial /\ Len(recentPosts) >= 1

PostErrorShown ==
    /\ Len(postContent) = 1
    /\ postContent[1].tag = "error"
    /\ postContent[1].message \in
          {"Post not found (Slug mismatch)",
           "Error rendering post: Cannot read properties of undefined"}

\* C8: on a dynamically rendered post page whose dataset loaded with at least
\* one post, the sidebar is populated although the post container shows an
\* error, be it "Post not found (Slug mismatch)" or "Error rendering post".
C8_SidebarDespitePostError ==
    (pc = "done" /\ DynamicPostPage /\ Len(postsData) >= 1 /\ PostErrorShown)
        => SidebarPopulated

\* a render exception left the sidebar populated
C8_Witness ==
    /\ pc = "done" /\ DynamicPostPage /\ Len(postsData) >= 1
    /\ postContent[1].tag = "error"
    /\ postContent[1].message
          = "Error rendering post: Cannot read properties of undefined"
    /\ SidebarPopulated

\* renderRelatedPosts has run: the page has a preloaded post
RelatedRendered == pc = "done" /\ page = "post" /\ preloadedPost # NoSlug

\* the selection the claim describes: the k same-category posts and, when
\* k < 3, the first posts of other categories up to 3 in all
RelatedAsClaimed(cur, all) ==
    LET same == SelectSeq(all, LAMBDA p :
                     p.category = cur.category /\ p.slug # cur.slug)
        other == SelectSeq(all, LAMBDA p :
                     p.category # cur.category /\ p.slug # cur.slug)
        k == Len(same)
        m == Len(other)
    IN  IF k < 3 THEN same \o SubSeq(other, 1, Min(3 - k, m))
        ELSE SubSeq(same, 1, 3)

\* C9: the related posts are the k same-category posts followed, when
\* k < 3, by the first min(3-k, m) posts of other categories, min(3, k+m)
\* entries without repetition and without the current post, the first 3
\* same-category posts when k >= 3; the section is shown if and only if the
\* selection is not empty.
C9_RelatedSelection ==
    RelatedRendered =>
        LET cur == Site[preloadedPost]
            claimed == RelatedAsClaimed(cur, Posts)
        IN  /\ relatedShown <=> Len(claimed) >= 1
            /\ relatedShown =>
                  /\ relatedGrid = RelatedNodes(claimed)
                  /\ \A a, b \in 1..Len(relatedGrid) :
                        relatedGrid[a].slug = relatedGrid[b].slug => a = b
                  /\ \A a \in 1..Len(relatedGrid) :
                        relatedGrid[a].slug # cur.slug

\* the spec's example: two other posts share the category, five posts in all
C9_Witness ==
    /\ RelatedRendered /\ relatedShown
    /\ Len(Posts) = 5
    /\ Len(SelectSeq(Posts, LAMBDA p :
              p.category = Site[preloadedPost].category
              /\ p.slug # preloadedPost)) = 2

\* the post container shows a rendered article
ArticleShown ==
    /\ pc = "done" /\ page = "post"
    /\ Len(postContent) = 1 /\ postContent[1].tag = "article"

AdCount(body) == Len(SelectSeq(body, LAMBDA node : node.tag = "ad"))

\* C10: the body of a rendered post with P paragraphs, I ingredients and S
\* steps is: the P paragraphs in order, with an ad placeholder right after
\* the 3rd if and only if P >= 3; the ingredients list if and only if I > 0;
\* the steps list if and only if S > 0; one ad placeholder as last element.
\* It holds 2 ad placeholders when P >= 3 and 1 otherwise, and in the header
\* the title comes before the meta.
C10_BodyOrder ==
    ArticleShown =>
        LET post == postsData[FindSlug(postsData, postContent[1].slug, 1)]
            body == postContent[1].body
            paras == post.content.paragraphs
            P == Len(paras)
            I == Len(post.content.ingredients)
            S == Len(post.content.steps)
            mid == IF P >= 3 THEN 1 ELSE 0
            afterParas == P + mid
            afterIngredients == afterParas + (IF I > 0 THEN 2 ELSE 0)
            afterSteps == afterIngredients + (IF S > 0 THEN 2 ELSE 0)
        IN  /\ postContent[1].slug = slugParam
            /\ postContent[1].header = <<"title", "meta">>
            /\ Len(body) = afterSteps + 1
            /\ \A k \in 1..P :
                  body[IF k > 3 THEN k + 1 ELSE k] = [tag |-> "p", text |-> paras[k]]
            /\ P >= 3 => body[4] = MidAd
            /\ I > 0 =>
                  /\ body[afterParas + 1] = [tag |-> "h2", text |-> "Ingredients"]
                  /\ body[afterParas + 2]
                        = [tag |-> "ul", items |-> post.content.ingredients]
            /\ S > 0 =>
                  /\ body[afterIngredients + 1]
                        = [tag |-> "h2", text |-> "Instructions"]
                  /\ body[afterIngredients + 2]
                        = [tag |-> "ol", items |-> post.content.steps]
            /\ body[Len(body)] = EndAd
            /\ AdCount(body) = IF P >= 3 THEN 2 ELSE 1

\* four paragraphs, ingredients and steps: both ads and both lists rendered
C10_Witness ==
    /\ ArticleShown
    /\ Len(postContent[1].body) = 10
    /\ postContent[1].body[4] = MidAd
    /\ postContent[1].body[5].tag = "p"
    /\ postContent[1].body[7].tag = "ul"
    /\ postContent[1].body[9].tag = "ol"

\* the dynamically rendered post page has opened, from the loaded dataset,
\* the record of its slug, and that record has no content field
ContentlessPostOpened ==
    /\ pc = "done" /\ DynamicPostPage
    /\ FindSlug(Posts, slugParam, 1) # 0
    /\ "content" \notin DOMAIN Posts[FindSlug(Posts, slugParam, 1)]

\* C11: a post record without the content field is rendered as a post with
\* no paragraphs, ingredients or steps: the post container holds the article
\* with its header, its optional image and a body that is the end-of-body ad
\* placeholder alone, and never an "Error rendering post" message.
C11_AbsentContentRendersEmptyBody ==
    ContentlessPostOpened =>
        LET post == Posts[FindSlug(Posts, slugParam, 1)]
        IN  /\ Len(postContent) = 1
            /\ postContent[1].tag = "article"
            /\ postContent[1].slug = post.slug
            /\ postContent[1].header = <<"title", "meta">>
            /\ postContent[1].image = post.image
            /\ postContent[1].body = <<EndAd>>

\* the record without content was opened and the container shows the error
C11_Witness ==
    /\ ContentlessPostOpened
    /\ Len(postContent) = 1
    /\ postContent[1].tag = "error"
    /\ postContent[1].message
          = "Error rendering post: Cannot read properties of undefined"
    /\ currentPost = slugParam

\* the rendered controls of one kind: "prev", "num" or "next"
Controls(kind) == SelectSeq(pagination, LAMBDA c : c.tag = kind)

\* C12: once page 1 is rendered from N >= 1 posts, whatever rendered
\* pagination controls are clicked, currentPage stays in 1..ceil(N/8) and
\* the grid is never empty; every rendered control targets a page of that
\* range; Previous is rendered if and only if currentPage > 1 and targets
\* currentPage-1; Next is rendered if and only if currentPage < ceil(N/8)
\* and targets currentPage+1.
C12_PageStaysInRange ==
    GridRendered =>
        LET T == CeilDiv(Len(postsData), 8)
            prevs == Controls("prev")
            nexts == Controls("next")
        IN  /\ currentPage \in 1..T
            /\ Len(grid) >= 1
            /\ \A j \in 1..Len(grid) : grid[j].tag = "card"
            /\ \A k \in 1..Len(pagination) :
                  pagination[k].tag \in {"prev", "num", "next"}
                      => pagination[k].page \in 1..T
            /\ Len(prevs) = (IF currentPage > 1 THEN 1 ELSE 0)
            /\ \A k \in 1..Len(prevs) : prevs[k].page = currentPage - 1
            /\ Len(nexts) = (IF currentPage < T THEN 1 ELSE 0)
            /\ \A k \in 1..Len(nexts) : nexts[k].page = currentPage + 1

\* clicks have led to the last of at least three pages: Previous is
\* rendered, Next is not
C12_Witness ==
    /\ GridRendered
    /\ TotalPages(postsData) >= 3
    /\ currentPage = TotalPages(postsData)
    /\ Len(Controls("prev")) = 1 /\ Len(Controls("next")) = 0
    /\ Len(grid) >= 1

\* the carousel is rendered with at least one slide
CarouselRendered == listening /\ SlideCount >= 1

\* the element at (0-based) of nodes is active and no other element is
OnlyActive(nodes, at) ==
    /\ at + 1 \in 1..Len(nodes)
    /\ \A j \in 1..Len(nodes) : nodes[j].active <=> j - 1 = at

\* currentSlide is a slide index, and it names the one active slide and the
\* one active dot
OneActiveSlideAndDot ==
    CarouselRendered =>
        /\ currentSlide \in 0..(SlideCount - 1)
        /\ OnlyActive(heroCarousel, currentSlide)
        /\ Len(carouselDots) = SlideCount
        /\ OnlyActive(carouselDots, currentSlide)

\* a tick or a next click leads from s to (s+1) mod n, a prev click from s to
\* (s-1) mod n; each conjunct is stated as "~P => ~A" for "A => P"
CarouselMoves ==
    CarouselRendered =>
        /\ currentSlide' # (currentSlide + 1) % SlideCount
              => ~(Tick \/ NextClick)
        /\ currentSlide' # (currentSlide + SlideCount - 1) % SlideCount
              => ~PrevClick

\* C13: once the carousel is rendered with n >= 1 slides, under every
\* interleaving of prev, next and dot clicks, ticks, mouseenter and
\* mouseleave, currentSlide is in 0..n-1, exactly one slide is active and it
\* is slide currentSlide, exactly one dot is active and it is dot
\* currentSlide; a tick or a next click moves the active index from s to
\* (s+1) mod n and a prev click from s to (s-1) mod n.
C13_CarouselInvariant == []OneActiveSlideAndDot /\ [][CarouselMoves]_vars

\* the last of five slides is the active one while the timer is paused
C13_Witness ==
    /\ CarouselRendered /\ SlideCount = 5 /\ Idle
    /\ currentSlide = 4
    /\ heroCarousel[5].active /\ carouselDots[5].active
    /\ ~heroCarousel[1].active /\ ~carouselDots[1].active

=============================================================================
